---- MODULE Spec2Model ----
(***************************************************************************)
(* The bounded log buffer of QsLog's window destination                    *)
(* (QsLogging::WindowDestination in QsLogDestWindow.cpp): a std::deque of  *)
(* LogMessage guarded by a QReadWriteLock, written by the threads that log *)
(* (write -> addEntry) and read and cleared by the thread of the window    *)
(* (rowCount, at, OnClearClicked -> clear).                                *)
(*                                                                         *)
(* Every function is cut into steps at the points where it takes or gives  *)
(* back data_lock_.  A statement that touches data_ without the lock       *)
(* (line 59, line 67, line 74, line 91) is a step of its own, and so is     *)
(* every call that touches the model's stack of changes (lines 60, 65).    *)
(* An unlocked read races with a thread that is inside a critical section  *)
(* of data_lock_: what it then gives is not defined.                       *)
(*                                                                         *)
(* The Window of QsLogWindow.cpp shows the destination through a           *)
(* WindowLogFilterProxyModel: its threshold level_, the row mapping the     *)
(* proxy keeps from the signals of the destination, the level combo box    *)
(* and getSelectionText are modelled for a Window living in the thread     *)
(* that also writes (SpecView).                                            *)
(***************************************************************************)
EXTENDS Integers, Sequences, FiniteSets, TLC

\* ---------------------------------------------------------------- bounds
NumProducers == 2      \* threads that call write()
MaxAppends == 2        \* addEntry calls in one behaviour of Spec
MaxCapacity == 1       \* largest bounded max_items_ of Spec
MaxAtIndex == 1        \* largest index handed to at() in SpecLive
AppendOnlyMax == 3     \* addEntry calls in one behaviour of SpecAppend
AppendOnlyCapacity == 2 \* largest bounded max_items_ of SpecAppend
SeqAppends == 4        \* addEntry calls in one behaviour of SpecSeq
SeqCapacity == 3       \* largest bounded max_items_ of SpecSeq
SeqAtIndex == 5        \* largest index handed to at() in SpecSeq
ViewAppends == 3       \* addEntry calls in one behaviour of SpecView
ViewCapacity == 2      \* largest bounded max_items_ of SpecView
MaxSelected == 2       \* most rows selected when the text is taken in SpecView
MaxTornAbove == 1      \* a torn size() near the length is at most this above it

\* ------------------------------------------------------ program constants
\* enum Level; the window lists TraceLevel .. OffLevel - 1 in its combo box.
TraceLevel == 0
DebugLevel == 1
InfoLevel == 2
WarnLevel == 3
ErrorLevel == 4
FatalLevel == 5
OffLevel == 6

\* std::numeric_limits<size_t>::max(), written as size_t(-1): "no limit".
SizeMax == -1

\* columnCount() of the table model.
ColumnCount == 3

\* ---------------------------------------------------------------- threads
\* The logging threads are numbered from 1; the window's thread comes after.
Producers == 1..NumProducers
UI == NumProducers + 1
Threads == Producers \cup {UI}

Levels == TraceLevel..FatalLevel
SeqLevels == {DebugLevel, InfoLevel, WarnLevel, ErrorLevel}
ConcLevels == {InfoLevel}
\* The levels of the messages written and the levels chosen in the combo
\* box during a behaviour of SpecView.
ViewLevels == {DebugLevel, InfoLevel, WarnLevel}
ViewThresholds == {InfoLevel, WarnLevel}

\* A LogMessage is its number in the order of the write() calls and its
\* level.  NoMsg: no message; Garbage: memory that holds no appended message.
NoMsg == [id |-> 0, level |-> OffLevel]
Garbage == [id |-> -1, level |-> OffLevel]

VARIABLES
    data_,        \* std::deque<LogMessage> data_
    max_items_,   \* size_t max_items_
    lockW,        \* data_lock_: the thread holding it for writing, if any
    lockR,        \* data_lock_: the threads holding it for reading
    pc,           \* where each thread stands
    msg,          \* addEntry's argument, per producer
    next_idx,     \* addEntry's local next_idx, per producer
    popped,       \* whether the running/last addEntry of a producer evicted
    emitted,      \* the signals the running/last call of a thread emitted
    nextId,       \* number of the next LogMessage handed to write()
    sinceClear,   \* history: messages pushed since construction/last clear
    everEvicted,  \* history: some pop_front has run
    uiIdx,        \* at()'s argument
    atResult,     \* what the last at() gave back
    rcResult,     \* what the last rowCount() returned
    ub,           \* "none", or how undefined behaviour ended the run
    attached,     \* a Window with its filter proxy is connected to the model
    level_,       \* WindowLogFilterProxyModel::level_
    mapped,       \* the proxy's row mapping: per source row it knows, shown or not
    value,        \* OnLevelChanged's argument, the combo box's current index
    text,         \* what the running/last getSelectionText() built
    rows,         \* getSelectionText's sorted list of the selected rows
    paused_,      \* Window::paused_
    updatesEnabled, \* tableViewMessages->updatesEnabled()
    oddClicks,    \* history: the pause button was clicked an odd number of times
    changes,      \* QAbstractItemModel's stack of the changes begun, not ended
    idx1,         \* addEntry's local idx1, per producer
    idx2,         \* addEntry's local idx2, per producer
    arg_row,      \* line 74: the value of the argument data_.size()
    arg_column    \* line 74: the value of the argument rowCount()

\* The state of the Window and of its WindowLogFilterProxyModel.
viewVars == <<attached, level_, mapped, value, text, rows>>

\* The state of the pause button.
pauseVars == <<paused_, updatesEnabled, oddClicks>>

\* What beginInsertRows leaves for endInsertRows and the locals of lines
\* 73-74.
changeVars == <<changes, idx1, idx2, arg_row, arg_column>>

vars == <<data_, max_items_, lockW, lockR, pc, msg, next_idx, popped, emitted,
          nextId, sinceClear, everEvicted, uiIdx, atResult,
          rcResult, ub, attached, level_, mapped, value, text, rows,
          paused_, updatesEnabled, oddClicks, changes, idx1, idx2, arg_row,
          arg_column>>

\* ------------------------------------------------------------ the lock
\* QWriteLocker: the lock is free of writers and readers.
CanLockForWrite == lockW = {} /\ lockR = {}
\* QReadLocker: no writer holds the lock.
CanLockForRead == lockW = {}

\* A signal as an observer receives it; locked records whether the emitting
\* thread held data_lock_ at the emit.
Signal(t, kind, first, last) ==
    [kind |-> kind, first |-> first, last |-> last,
     locked |-> (t \in lockW \/ t \in lockR)]

\* A value above every length and every capacity of a behaviour.
TornHigh ==
    MaxAppends + AppendOnlyMax + SeqAppends + ViewAppends
    + MaxCapacity + AppendOnlyCapacity + SeqCapacity + ViewCapacity

\* What a data_.size() without data_lock_ (lines 59, 67, 74) can give.  With
\* no thread inside a critical section it is the length.  With a writer
\* inside its critical section the read races with push_back, pop_front or
\* clear, which move the deque's begin and end one field after the other:
\* size(), the difference of the two, is then the length or a value made of
\* fields of different moments.  Such a value lies anywhere: among the rows
\* of the deque, above the length by a few records, or far off, where -1
\* stands for the values below every row and every capacity (as an int,
\* what static_cast<int> makes of a size past the largest int) and
\* TornHigh for the values above every length and every capacity.
RacySize ==
    IF lockW = {} THEN {Len(data_)}
    ELSE {-1} \cup (0..(Len(data_) + MaxTornAbove)) \cup {TornHigh}

\* OverCapacity with "no limit" taken for a capacity of 0.
OverCapacity_noLimitAsZero(size) ==
    size > (IF max_items_ = SizeMax THEN 0 ELSE max_items_)

\* line 67: max_items_ < max() && data_.size() > max_items_, size being
\* what data_.size() gave.
OverCapacity(size) == max_items_ # SizeMax /\ size > max_items_

\* QModelIndex(): the invalid index, row -1 and column -1.
InvalidIndex == [row |-> -1, column |-> -1]

\* WindowDestination(size_t max_items): an empty deque, a free lock; the
\* capacity is one of 0..cap or "no limit".
Constructed(cap) ==
    /\ data_ = <<>>
    /\ max_items_ \in (0..cap) \cup {SizeMax}
    /\ lockW = {}
    /\ lockR = {}
    /\ pc = [t \in Threads |-> "idle"]
    /\ msg = [p \in Producers |-> NoMsg]
    /\ next_idx = [p \in Producers |-> 0]
    /\ popped = [p \in Producers |-> FALSE]
    /\ emitted = [t \in Threads |-> <<>>]
    /\ nextId = 1
    /\ sinceClear = <<>>
    /\ everEvicted = FALSE
    /\ uiIdx = 0
    /\ atResult = NoMsg
    /\ rcResult = 0
    /\ ub = "none"
    /\ changes = <<>>
    /\ idx1 = [p \in Producers |-> InvalidIndex]
    /\ idx2 = [p \in Producers |-> InvalidIndex]
    /\ arg_row = [p \in Producers |-> 0]
    /\ arg_column = [p \in Producers |-> 0]

\* lines 47-50: isValid() is constant
isValid == TRUE

\* QAbstractTableModel::index(row, column) as lines 73-74 call it: the
\* index of the cell when hasIndex(row, column) holds, that is when the row
\* is below rowCount() and the column below columnCount(); else QModelIndex().
index(row, column) ==
    IF row >= 0 /\ column >= 0 /\ row < Len(data_) /\ column < ColumnCount
    THEN [row |-> row, column |-> column]
    ELSE InvalidIndex

\* std::deque::operator[] as at() uses it: no bound is checked and no lock
\* is held.  With the index below size() and no writer inside its critical
\* section it is the element.  With the index at or past size() it is
\* undefined: a copy of whatever lies there, or the death of the process.
\* With a writer inside its critical section the read races with the
\* mutation: the element, torn memory, or the death of the process.  No
\* outcome reports an error to the caller.  A negative int handed to the
\* size_t parameter arrives as a value above every size().
IndexUnchecked(d, i, racing) ==
    (IF i >= 0 /\ i < Len(d) THEN {[msg |-> d[i + 1], ub |-> "none"]} ELSE {})
    \cup (IF i < 0 \/ i >= Len(d) \/ racing
          THEN {[msg |-> Garbage, ub |-> "none"], [msg |-> NoMsg, ub |-> "crash"]}
          ELSE {})

\* ------------------------------------------------------ the filter proxy
\* WindowLogFilterProxyModel is a QSortFilterProxyModel (QsLogWindow.cpp
\* line 63) whose source model is the destination (line 123).  What it
\* inherits: per source row it has been told of, it keeps whether the row is
\* shown.  It is told of rows by rowsInserted and modelReset; it reads rows
\* again on invalidateFilter() and on a dataChanged between two valid
\* corners; it learns of a removed row only from rowsRemoved, which the
\* destination never emits.  Whenever it reads a row it asks
\* filterAcceptsRow, which calls at().

\* QsLogWindow.cpp lines 86-92: filterAcceptsRow(source_row) with level_ =
\* level, on every outcome of at(source_row).  Memory that holds no message
\* has any level.
filterAcceptsRow(source_row, level) ==
    UNION {IF r.ub # "none" THEN {[acc |-> FALSE, ub |-> r.ub]}
           ELSE IF r.msg = Garbage THEN {[acc |-> b, ub |-> "none"] : b \in BOOLEAN}
           ELSE {[acc |-> r.msg.level >= level, ub |-> "none"]} :
           r \in IndexUnchecked(data_, source_row, lockW # {})}

\* The mapping the proxy builds when it has none: filterAcceptsRow on the
\* rows 0 .. rowCount() - 1 of the source.
CreateMapping(level) == [i \in 1..Len(data_) |-> data_[i].level >= level]

\* q with x put in at the 0-based position i.
InsertAt(q, i, x) == SubSeq(q, 1, i) \o <<x>> \o SubSeq(q, i + 1, Len(q))

\* The proxy's slot for rowsInserted(start, start), run inside the emit of
\* line 65: a row past the rows it knows makes it drop its mapping and build
\* it anew; else the rows from start on move up by one and the new row is
\* read.  Without a Window nothing is connected.
SourceRowsInserted(start) ==
    IF ~attached THEN {[mapped |-> mapped, ub |-> "none"]}
    ELSE IF start > Len(mapped)
    THEN {[mapped |-> CreateMapping(level_), ub |-> "none"]}
    ELSE {[mapped |-> InsertAt(mapped, start, r.acc), ub |-> r.ub] :
            r \in filterAcceptsRow(start, level_)}

\* The proxy's slot for modelReset, run inside the emit of line 86: the
\* mapping is dropped and, the view asking for the rows, built anew.
SourceReset == IF attached THEN CreateMapping(level_) ELSE mapped

\* The proxy's slot for dataChanged(topLeft, bottomRight), run inside the
\* emit of line 75: with an invalid corner it returns at once; between two
\* valid corners it reads the rows of the range again.
SourceDataChanged(topLeft, bottomRight) ==
    IF ~attached \/ topLeft = InvalidIndex \/ bottomRight = InvalidIndex
    THEN mapped
    ELSE [i \in 1..Len(mapped) |->
            IF i - 1 >= topLeft.row /\ i - 1 <= bottomRight.row
               /\ i <= Len(data_)
            THEN data_[i].level >= level_ ELSE mapped[i]]

\* No Window is connected to the destination.
NoWindow ==
    /\ attached = FALSE
    /\ level_ = InfoLevel
    /\ mapped = <<>>
    /\ value = InfoLevel
    /\ text = <<>>
    /\ rows = <<>>
    /\ paused_ = FALSE
    /\ updatesEnabled = TRUE
    /\ oddClicks = FALSE

\* QsLogWindow.cpp lines 98-140: Window(destination): the proxy is made with
\* InfoLevel and given the destination as its source (lines 122-124), the
\* combo box ends on InfoLevel (line 139), paused_ is false (line 110) and
\* the table view updates as every new widget does.
Window_ctor ==
    /\ attached = TRUE
    /\ level_ = InfoLevel
    /\ mapped = CreateMapping(InfoLevel)
    /\ value = InfoLevel
    /\ text = <<>>
    /\ rows = <<>>
    /\ paused_ = FALSE
    /\ updatesEnabled = TRUE
    /\ oddClicks = FALSE

\* ------------------------------------------------------------- addEntry
\* write(message) -> addEntry(message): line 59 reads data_.size() without
\* the lock.
AddEntry_begin(p, lvl) ==
    /\ ub = "none" /\ pc[p] = "idle"
    /\ msg' = [msg EXCEPT ![p] = [id |-> nextId, level |-> lvl]]
    /\ nextId' = nextId + 1
    /\ \E size \in RacySize : next_idx' = [next_idx EXCEPT ![p] = size]
    /\ popped' = [popped EXCEPT ![p] = FALSE]
    /\ pc' = [pc EXCEPT ![p] = "begin_insert"]
    /\ UNCHANGED <<data_, max_items_, lockW, lockR, emitted, sinceClear,
                   everEvicted, uiIdx, atResult, rcResult, ub>>
    /\ UNCHANGED viewVars
    /\ UNCHANGED pauseVars
    /\ UNCHANGED changeVars

\* line 60: beginInsertRows(QModelIndex(), next_idx, next_idx) puts the
\* range on the model's stack of changes and emits rowsAboutToBeInserted.
AddEntry_beginInsert(p) ==
    /\ ub = "none" /\ pc[p] = "begin_insert"
    /\ changes' = Append(changes, [first |-> next_idx[p],
                                   last |-> next_idx[p]])
    /\ emitted' = [emitted EXCEPT ![p] =
            Append(@, Signal(p, "rowsAboutToBeInserted", next_idx[p],
                             next_idx[p]))]
    /\ pc' = [pc EXCEPT ![p] = "lock_push"]
    /\ UNCHANGED <<data_, max_items_, lockW, lockR, msg, next_idx, popped,
                   nextId, sinceClear, everEvicted, uiIdx, atResult,
                   rcResult, ub>>
    /\ UNCHANGED viewVars
    /\ UNCHANGED pauseVars
    /\ UNCHANGED <<idx1, idx2, arg_row, arg_column>>

\* line 62: QWriteLocker lock(&data_lock_)
AddEntry_lockPush(p) ==
    /\ ub = "none" /\ pc[p] = "lock_push"
    /\ CanLockForWrite
    /\ lockW' = {p}
    /\ pc' = [pc EXCEPT ![p] = "push"]
    /\ UNCHANGED <<data_, max_items_, lockR, msg, next_idx, popped, emitted,
                   nextId, sinceClear, everEvicted, uiIdx,
                   atResult, rcResult, ub>>
    /\ UNCHANGED viewVars
    /\ UNCHANGED pauseVars
    /\ UNCHANGED changeVars

\* AddEntry_push that stores at the index read on line 59, before the lock
\* was taken, in place of push_back.
AddEntry_push_atIndex(p) ==
    /\ ub = "none" /\ pc[p] = "push"
    /\ data_' = IF next_idx[p] < Len(data_)
                THEN [data_ EXCEPT ![next_idx[p] + 1] = msg[p]]
                ELSE Append(data_, msg[p])
    /\ sinceClear' = Append(sinceClear, msg[p])
    /\ lockW' = {}
    /\ pc' = [pc EXCEPT ![p] = "inserted"]
    /\ UNCHANGED <<max_items_, lockR, msg, next_idx, popped, emitted, nextId,
                   everEvicted, uiIdx, atResult, rcResult, ub>>
    /\ UNCHANGED viewVars
    /\ UNCHANGED pauseVars
    /\ UNCHANGED changeVars

\* AddEntry_push that refuses the record when the buffer is at capacity.
AddEntry_push_dropWhenFull(p) ==
    /\ ub = "none" /\ pc[p] = "push"
    /\ data_' = IF max_items_ # SizeMax /\ Len(data_) >= max_items_
                THEN data_ ELSE Append(data_, msg[p])
    /\ sinceClear' = Append(sinceClear, msg[p])
    /\ lockW' = {}
    /\ pc' = [pc EXCEPT ![p] = "inserted"]
    /\ UNCHANGED <<max_items_, lockR, msg, next_idx, popped, emitted, nextId,
                   everEvicted, uiIdx, atResult, rcResult, ub>>
    /\ UNCHANGED viewVars
    /\ UNCHANGED pauseVars
    /\ UNCHANGED changeVars

\* lines 63-64: data_.push_back(message), end of the locker's scope
AddEntry_push(p) ==
    /\ ub = "none" /\ pc[p] = "push"
    /\ data_' = Append(data_, msg[p])
    /\ sinceClear' = Append(sinceClear, msg[p])
    /\ lockW' = {}
    /\ pc' = [pc EXCEPT ![p] = "inserted"]
    /\ UNCHANGED <<max_items_, lockR, msg, next_idx, popped, emitted, nextId,
                   everEvicted, uiIdx, atResult, rcResult, ub>>
    /\ UNCHANGED viewVars
    /\ UNCHANGED pauseVars
    /\ UNCHANGED changeVars

\* line 65: endInsertRows() takes the range on top of the model's stack of
\* changes, the one begun last by whichever thread, and emits rowsInserted
\* for it.
AddEntry_endInsert(p) ==
    /\ ub = "none" /\ pc[p] = "inserted"
    /\ LET change == changes[Len(changes)]
       IN  /\ changes' = SubSeq(changes, 1, Len(changes) - 1)
           /\ emitted' = [emitted EXCEPT ![p] =
                   Append(@, Signal(p, "rowsInserted", change.first,
                                    change.last))]
           /\ \E r \in SourceRowsInserted(change.first) :
                   mapped' = r.mapped /\ ub' = r.ub
    /\ pc' = [pc EXCEPT ![p] = "test"]
    /\ UNCHANGED <<attached, level_, value, text, rows>>
    /\ UNCHANGED <<data_, max_items_, lockW, lockR, msg, next_idx, popped,
                   nextId, sinceClear, everEvicted, uiIdx, atResult,
                   rcResult>>
    /\ UNCHANGED pauseVars
    /\ UNCHANGED <<idx1, idx2, arg_row, arg_column>>

\* AddEntry_capacityTest with the dataChanged emit outside the if of line 67.
AddEntry_capacityTest_alwaysChanged(p) ==
    /\ ub = "none" /\ pc[p] = "test"
    /\ \E size \in RacySize :
            pc' = [pc EXCEPT ![p] =
                    IF OverCapacity(size) THEN "lock_pop" ELSE "changed"]
    /\ UNCHANGED <<data_, max_items_, lockW, lockR, msg, next_idx, popped,
                   emitted, nextId, sinceClear, everEvicted, uiIdx, atResult,
                   rcResult, ub>>
    /\ UNCHANGED viewVars
    /\ UNCHANGED pauseVars
    /\ UNCHANGED changeVars

\* line 67: the capacity test, data_.size() read without the lock.
AddEntry_capacityTest(p) ==
    /\ ub = "none" /\ pc[p] = "test"
    /\ \E size \in RacySize :
            pc' = [pc EXCEPT ![p] =
                    IF OverCapacity(size) THEN "lock_pop" ELSE "ret"]
    /\ UNCHANGED <<data_, max_items_, lockW, lockR, msg, next_idx, popped,
                   emitted, nextId, sinceClear, everEvicted, uiIdx, atResult,
                   rcResult, ub>>
    /\ UNCHANGED viewVars
    /\ UNCHANGED pauseVars
    /\ UNCHANGED changeVars

\* line 69: QWriteLocker lock(&data_lock_)
AddEntry_lockPop(p) ==
    /\ ub = "none" /\ pc[p] = "lock_pop"
    /\ CanLockForWrite
    /\ lockW' = {p}
    /\ pc' = [pc EXCEPT ![p] = "pop"]
    /\ UNCHANGED <<data_, max_items_, lockR, msg, next_idx, popped, emitted,
                   nextId, sinceClear, everEvicted, uiIdx,
                   atResult, rcResult, ub>>
    /\ UNCHANGED viewVars
    /\ UNCHANGED pauseVars
    /\ UNCHANGED changeVars

\* std::deque::pop_front.  On an empty deque it is undefined: the process
\* dies with the deque as it was, or the deque's begin moves past its end and
\* what it then holds is memory that no append put there.
PopFront(d) ==
    IF d # <<>> THEN {[data |-> Tail(d), ub |-> "none"]}
    ELSE {[data |-> d, ub |-> "crash"], [data |-> <<Garbage>>, ub |-> "corrupt"]}

\* AddEntry_pop with pop_back in place of pop_front: the newest record goes.
AddEntry_pop_newest(p) ==
    /\ ub = "none" /\ pc[p] = "pop" /\ data_ # <<>>
    /\ data_' = SubSeq(data_, 1, Len(data_) - 1)
    /\ popped' = [popped EXCEPT ![p] = TRUE]
    /\ everEvicted' = TRUE
    /\ lockW' = {}
    /\ pc' = [pc EXCEPT ![p] = "changed"]
    /\ UNCHANGED <<max_items_, lockR, msg, next_idx, emitted, nextId,
                   sinceClear, uiIdx, atResult, rcResult, ub>>
    /\ UNCHANGED viewVars
    /\ UNCHANGED pauseVars
    /\ UNCHANGED changeVars

\* lines 70-71: data_.pop_front(), end of the locker's scope.  After
\* undefined behaviour the run is past what the source defines and stops.
AddEntry_pop(p) ==
    /\ ub = "none" /\ pc[p] = "pop"
    /\ \E r \in PopFront(data_) :
        /\ data_' = r.data
        /\ ub' = r.ub
        /\ IF r.ub = "none"
           THEN /\ popped' = [popped EXCEPT ![p] = TRUE]
                /\ everEvicted' = TRUE
                /\ lockW' = {}
                /\ pc' = [pc EXCEPT ![p] = "changed"]
           ELSE UNCHANGED <<popped, everEvicted, lockW, pc>>
    /\ UNCHANGED <<max_items_, lockR, msg, next_idx, emitted, nextId,
                   sinceClear, uiIdx, atResult, rcResult>>
    /\ UNCHANGED viewVars
    /\ UNCHANGED pauseVars
    /\ UNCHANGED changeVars

\* line 73: idx1 = index(0, 0).  index() asks hasIndex(), which calls
\* rowCount(): line 102, QReadLocker lock(&data_lock_).
AddEntry_idx1Lock(p) ==
    /\ ub = "none" /\ pc[p] = "changed"
    /\ CanLockForRead
    /\ lockR' = lockR \cup {p}
    /\ pc' = [pc EXCEPT ![p] = "idx1"]
    /\ UNCHANGED <<data_, max_items_, lockW, msg, next_idx, popped, emitted,
                   nextId, sinceClear, everEvicted, uiIdx, atResult,
                   rcResult, ub, changes>>
    /\ UNCHANGED viewVars
    /\ UNCHANGED pauseVars
    /\ UNCHANGED <<idx1, idx2, arg_row, arg_column>>

\* line 73: rowCount() reads data_.size() and gives the lock back; idx1 is
\* the index of the first cell when there is a row.
AddEntry_idx1(p) ==
    /\ ub = "none" /\ pc[p] = "idx1"
    /\ idx1' = [idx1 EXCEPT ![p] = index(0, 0)]
    /\ lockR' = lockR \ {p}
    /\ pc' = [pc EXCEPT ![p] = "args"]
    /\ UNCHANGED <<data_, max_items_, lockW, msg, next_idx, popped, emitted,
                   nextId, sinceClear, everEvicted, uiIdx, atResult,
                   rcResult, ub, changes>>
    /\ UNCHANGED viewVars
    /\ UNCHANGED pauseVars
    /\ UNCHANGED <<idx2, arg_row, arg_column>>

\* line 74: the argument data_.size(), read without the lock.  The two
\* arguments of index() are evaluated in either order.
AddEntry_argSize(p) ==
    /\ ub = "none" /\ pc[p] \in {"args", "args_column"}
    /\ \E size \in RacySize : arg_row' = [arg_row EXCEPT ![p] = size]
    /\ pc' = [pc EXCEPT ![p] = IF pc[p] = "args" THEN "args_row" ELSE "has"]
    /\ UNCHANGED lockR
    /\ UNCHANGED <<data_, max_items_, lockW, msg, next_idx, popped, emitted,
                   nextId, sinceClear, everEvicted, uiIdx, atResult,
                   rcResult, ub, changes>>
    /\ UNCHANGED viewVars
    /\ UNCHANGED pauseVars
    /\ UNCHANGED <<idx1, idx2, arg_column>>

\* line 74: the argument rowCount(): line 102, QReadLocker lock(&data_lock_).
AddEntry_argRowCountLock(p) ==
    /\ ub = "none" /\ pc[p] \in {"args", "args_row"}
    /\ CanLockForRead
    /\ lockR' = lockR \cup {p}
    /\ pc' = [pc EXCEPT ![p] =
            IF pc[p] = "args" THEN "args_rowCount" ELSE "args_row_rowCount"]
    /\ UNCHANGED <<data_, max_items_, lockW, msg, next_idx, popped, emitted,
                   nextId, sinceClear, everEvicted, uiIdx, atResult,
                   rcResult, ub, changes>>
    /\ UNCHANGED viewVars
    /\ UNCHANGED pauseVars
    /\ UNCHANGED <<idx1, idx2, arg_row, arg_column>>

\* line 74: the argument rowCount() reads data_.size() and gives the lock
\* back.
AddEntry_argRowCount(p) ==
    /\ ub = "none" /\ pc[p] \in {"args_rowCount", "args_row_rowCount"}
    /\ arg_column' = [arg_column EXCEPT ![p] = Len(data_)]
    /\ lockR' = lockR \ {p}
    /\ pc' = [pc EXCEPT ![p] =
            IF pc[p] = "args_rowCount" THEN "args_column" ELSE "has"]
    /\ UNCHANGED <<data_, max_items_, lockW, msg, next_idx, popped, emitted,
                   nextId, sinceClear, everEvicted, uiIdx, atResult,
                   rcResult, ub, changes>>
    /\ UNCHANGED viewVars
    /\ UNCHANGED pauseVars
    /\ UNCHANGED <<idx1, idx2, arg_row>>

\* line 74: index(row, column) asks hasIndex(row, column).  With a row or a
\* column below 0 hasIndex is false at once and idx2 is QModelIndex(): no
\* lock is taken.  Else it calls rowCount(): line 102, QReadLocker
\* lock(&data_lock_).
AddEntry_hasIndex(p) ==
    /\ ub = "none" /\ pc[p] = "has"
    /\ IF arg_row[p] < 0 \/ arg_column[p] < 0
       THEN /\ idx2' = [idx2 EXCEPT ![p] = InvalidIndex]
            /\ arg_row' = [arg_row EXCEPT ![p] = 0]
            /\ arg_column' = [arg_column EXCEPT ![p] = 0]
            /\ pc' = [pc EXCEPT ![p] = "emit"]
            /\ UNCHANGED lockR
       ELSE /\ CanLockForRead
            /\ lockR' = lockR \cup {p}
            /\ pc' = [pc EXCEPT ![p] = "idx2"]
            /\ UNCHANGED <<idx2, arg_row, arg_column>>
    /\ UNCHANGED <<data_, max_items_, lockW, msg, next_idx, popped, emitted,
                   nextId, sinceClear, everEvicted, uiIdx, atResult,
                   rcResult, ub, changes>>
    /\ UNCHANGED viewVars
    /\ UNCHANGED pauseVars
    /\ UNCHANGED idx1

\* line 74: rowCount() reads data_.size() and gives the lock back; idx2 is
\* the index of the cell (row, column) when the model has it now.
AddEntry_idx2(p) ==
    /\ ub = "none" /\ pc[p] = "idx2"
    /\ idx2' = [idx2 EXCEPT ![p] = index(arg_row[p], arg_column[p])]
    /\ arg_row' = [arg_row EXCEPT ![p] = 0]
    /\ arg_column' = [arg_column EXCEPT ![p] = 0]
    /\ lockR' = lockR \ {p}
    /\ pc' = [pc EXCEPT ![p] = "emit"]
    /\ UNCHANGED <<data_, max_items_, lockW, msg, next_idx, popped, emitted,
                   nextId, sinceClear, everEvicted, uiIdx, atResult,
                   rcResult, ub, changes>>
    /\ UNCHANGED viewVars
    /\ UNCHANGED pauseVars
    /\ UNCHANGED idx1

\* line 75: emit dataChanged(idx1, idx2)
AddEntry_dataChanged(p) ==
    /\ ub = "none" /\ pc[p] = "emit"
    /\ emitted' = [emitted EXCEPT ![p] =
            Append(@, Signal(p, "dataChanged", idx1[p], idx2[p]))]
    /\ mapped' = SourceDataChanged(idx1[p], idx2[p])
    /\ pc' = [pc EXCEPT ![p] = "ret"]
    /\ UNCHANGED <<data_, max_items_, lockW, lockR, msg, next_idx, popped, nextId,
                   sinceClear, everEvicted, uiIdx, atResult,
                   rcResult, ub>>
    /\ UNCHANGED <<attached, level_, value, text, rows>>
    /\ UNCHANGED pauseVars
    /\ UNCHANGED changeVars

\* line 77: addEntry and write() return; the locals are gone
AddEntry_return(p) ==
    /\ ub = "none" /\ pc[p] = "ret"
    /\ msg' = [msg EXCEPT ![p] = NoMsg]
    /\ next_idx' = [next_idx EXCEPT ![p] = 0]
    /\ popped' = [popped EXCEPT ![p] = FALSE]
    /\ emitted' = [emitted EXCEPT ![p] = <<>>]
    /\ idx1' = [idx1 EXCEPT ![p] = InvalidIndex]
    /\ idx2' = [idx2 EXCEPT ![p] = InvalidIndex]
    /\ pc' = [pc EXCEPT ![p] = "idle"]
    /\ UNCHANGED <<data_, max_items_, lockW, lockR, nextId, sinceClear,
                   everEvicted, uiIdx, atResult, rcResult, ub>>
    /\ UNCHANGED viewVars
    /\ UNCHANGED pauseVars
    /\ UNCHANGED <<changes, arg_row, arg_column>>

\* ---------------------------------------------------------------- clear
\* OnClearClicked -> clear(): line 81, beginResetModel()
Clear_begin ==
    /\ ub = "none" /\ pc[UI] = "idle"
    /\ emitted' = [emitted EXCEPT ![UI] =
            <<Signal(UI, "modelAboutToBeReset", 0, 0)>>]
    /\ pc' = [pc EXCEPT ![UI] = "lock_clear"]
    /\ UNCHANGED <<data_, max_items_, lockW, lockR, msg, next_idx, popped,
                   nextId, sinceClear, everEvicted, uiIdx,
                   atResult, rcResult, ub>>
    /\ UNCHANGED viewVars
    /\ UNCHANGED pauseVars
    /\ UNCHANGED changeVars

\* line 83: QWriteLocker lock(&data_lock_)
Clear_lock ==
    /\ ub = "none" /\ pc[UI] = "lock_clear"
    /\ CanLockForWrite
    /\ lockW' = {UI}
    /\ pc' = [pc EXCEPT ![UI] = "clear"]
    /\ UNCHANGED <<data_, max_items_, lockR, msg, next_idx, popped, emitted,
                   nextId, sinceClear, everEvicted, uiIdx,
                   atResult, rcResult, ub>>
    /\ UNCHANGED viewVars
    /\ UNCHANGED pauseVars
    /\ UNCHANGED changeVars

\* Clear_clear with endResetModel() inside the locker's scope.
Clear_clear_emitLocked ==
    /\ ub = "none" /\ pc[UI] = "clear"
    /\ data_' = <<>>
    /\ sinceClear' = <<>>
    /\ emitted' = [emitted EXCEPT ![UI] =
            Append(@, Signal(UI, "modelReset", 0, 0))]
    /\ mapped' = IF attached THEN <<>> ELSE mapped
    /\ UNCHANGED <<attached, level_, value, text, rows>>
    /\ lockW' = {}
    /\ pc' = [pc EXCEPT ![UI] = "clear_ret"]
    /\ UNCHANGED <<max_items_, lockR, msg, next_idx, popped, nextId,
                   everEvicted, uiIdx, atResult, rcResult, ub>>
    /\ UNCHANGED pauseVars
    /\ UNCHANGED changeVars

\* lines 84-85: data_.clear(), end of the locker's scope
Clear_clear ==
    /\ ub = "none" /\ pc[UI] = "clear"
    /\ data_' = <<>>
    /\ sinceClear' = <<>>
    /\ lockW' = {}
    /\ pc' = [pc EXCEPT ![UI] = "reset"]
    /\ UNCHANGED <<max_items_, lockR, msg, next_idx, popped, emitted, nextId,
                   everEvicted, uiIdx, atResult, rcResult, ub>>
    /\ UNCHANGED viewVars
    /\ UNCHANGED pauseVars
    /\ UNCHANGED changeVars

\* Clear_end that also puts the filter back to the level of the constructor.
Clear_end_resetLevel ==
    /\ ub = "none" /\ pc[UI] = "reset"
    /\ emitted' = [emitted EXCEPT ![UI] =
            Append(@, Signal(UI, "modelReset", 0, 0))]
    /\ level_' = InfoLevel
    /\ mapped' = IF attached THEN CreateMapping(InfoLevel) ELSE mapped
    /\ UNCHANGED <<attached, value, text, rows>>
    /\ pc' = [pc EXCEPT ![UI] = "clear_ret"]
    /\ UNCHANGED <<data_, max_items_, lockW, lockR, msg, next_idx, popped,
                   nextId, sinceClear, everEvicted, uiIdx, atResult,
                   rcResult, ub>>
    /\ UNCHANGED pauseVars
    /\ UNCHANGED changeVars

\* line 86: endResetModel()
Clear_end ==
    /\ ub = "none" /\ pc[UI] = "reset"
    /\ emitted' = [emitted EXCEPT ![UI] =
            Append(@, Signal(UI, "modelReset", 0, 0))]
    /\ mapped' = SourceReset
    /\ UNCHANGED <<attached, level_, value, text, rows>>
    /\ pc' = [pc EXCEPT ![UI] = "clear_ret"]
    /\ UNCHANGED <<data_, max_items_, lockW, lockR, msg, next_idx, popped,
                   nextId, sinceClear, everEvicted, uiIdx, atResult,
                   rcResult, ub>>
    /\ UNCHANGED pauseVars
    /\ UNCHANGED changeVars

\* line 87: clear() returns to OnClearClicked
Clear_return ==
    /\ ub = "none" /\ pc[UI] = "clear_ret"
    /\ emitted' = [emitted EXCEPT ![UI] = <<>>]
    /\ pc' = [pc EXCEPT ![UI] = "idle"]
    /\ UNCHANGED <<data_, max_items_, lockW, lockR, msg, next_idx, popped,
                   nextId, sinceClear, everEvicted, uiIdx, atResult,
                   rcResult, ub>>
    /\ UNCHANGED viewVars
    /\ UNCHANGED pauseVars
    /\ UNCHANGED changeVars

\* ------------------------------------------------------------------- at
\* at(index) is entered; it takes no lock.
At_call(i) ==
    /\ ub = "none" /\ pc[UI] = "idle"
    /\ uiIdx' = i
    /\ pc' = [pc EXCEPT ![UI] = "at_read"]
    /\ UNCHANGED <<data_, max_items_, lockW, lockR, msg, next_idx, popped,
                   emitted, nextId, sinceClear, everEvicted, atResult, rcResult, ub>>
    /\ UNCHANGED viewVars
    /\ UNCHANGED pauseVars
    /\ UNCHANGED changeVars

\* line 91: return data_[index]
At_read ==
    /\ ub = "none" /\ pc[UI] = "at_read"
    /\ \E r \in IndexUnchecked(data_, uiIdx, lockW # {}) :
            atResult' = r.msg /\ ub' = r.ub
    /\ pc' = [pc EXCEPT ![UI] = "at_ret"]
    /\ UNCHANGED <<data_, max_items_, lockW, lockR, msg, next_idx, popped,
                   emitted, nextId, sinceClear, everEvicted, uiIdx, rcResult>>
    /\ UNCHANGED viewVars
    /\ UNCHANGED pauseVars
    /\ UNCHANGED changeVars

\* the caller has the copy; at()'s frame is gone
At_return ==
    /\ ub = "none" /\ pc[UI] = "at_ret"
    /\ uiIdx' = 0
    /\ atResult' = NoMsg
    /\ pc' = [pc EXCEPT ![UI] = "idle"]
    /\ UNCHANGED <<data_, max_items_, lockW, lockR, msg, next_idx, popped,
                   emitted, nextId, sinceClear, everEvicted, rcResult, ub>>
    /\ UNCHANGED viewVars
    /\ UNCHANGED pauseVars
    /\ UNCHANGED changeVars

\* ------------------------------------------------------------- rowCount
\* line 103: QReadLocker lock(&data_lock_)
RowCount_lock ==
    /\ ub = "none" /\ pc[UI] = "idle"
    /\ CanLockForRead
    /\ lockR' = lockR \cup {UI}
    /\ pc' = [pc EXCEPT ![UI] = "rc_read"]
    /\ UNCHANGED <<data_, max_items_, lockW, msg, next_idx, popped, emitted,
                   nextId, sinceClear, everEvicted, uiIdx,
                   atResult, rcResult, ub>>
    /\ UNCHANGED viewVars
    /\ UNCHANGED pauseVars
    /\ UNCHANGED changeVars

\* line 105: return static_cast<int>(data_.size()), end of the locker's scope
RowCount_read ==
    /\ ub = "none" /\ pc[UI] = "rc_read"
    /\ rcResult' = Len(data_)
    /\ lockR' = lockR \ {UI}
    /\ pc' = [pc EXCEPT ![UI] = "rc_ret"]
    /\ UNCHANGED <<data_, max_items_, lockW, msg, next_idx, popped, emitted,
                   nextId, sinceClear, everEvicted, uiIdx,
                   atResult, ub>>
    /\ UNCHANGED viewVars
    /\ UNCHANGED pauseVars
    /\ UNCHANGED changeVars

\* the caller has the count; rowCount()'s frame is gone
RowCount_return ==
    /\ ub = "none" /\ pc[UI] = "rc_ret"
    /\ rcResult' = 0
    /\ pc' = [pc EXCEPT ![UI] = "idle"]
    /\ UNCHANGED <<data_, max_items_, lockW, lockR, msg, next_idx, popped,
                   emitted, nextId, sinceClear, everEvicted, uiIdx, atResult, ub>>
    /\ UNCHANGED viewVars
    /\ UNCHANGED pauseVars
    /\ UNCHANGED changeVars

\* ------------------------------------------------------------ the window
\* sort_filter_->rowCount() of QsLogWindow.cpp line 250: the number of rows
\* the proxy shows.
visibleCount == Cardinality({i \in 1..Len(mapped) : mapped[i]})

\* Whether the proxy shows the source row.
Shown(source_row) == mapped[source_row + 1]

\* The source rows the proxy shows, in the order it shows them (no sorting
\* is set: the order of the source).
SourceRows == SelectSeq([i \in 1..Len(mapped) |-> i - 1], Shown)

\* lines 251 and 256: sort_filter_->mapToSource(sort_filter_->index(i, 0))
\* .row().  The proxy has no index for a row it does not show, and maps the
\* invalid index to the invalid index; a shown row is mapped through the
\* source's index(), which is invalid for a row the source does not have.
mapVisibleToSource(visibleIndex) ==
    IF visibleIndex < 0 \/ visibleIndex >= visibleCount
    THEN InvalidIndex.row
    ELSE index(SourceRows[visibleIndex + 1], 0).row

\* lines 189-192 and 79-83: OnLevelChanged(value) -> setLevel(level):
\* level_ = level, then invalidateFilter(): the proxy asks filterAcceptsRow
\* for every source row it knows.
OnLevelChanged(l) ==
    /\ ub = "none" /\ pc[UI] = "idle"
    /\ value' = l
    /\ level_' = l
    /\ \/ \E m \in [1..Len(mapped) -> BOOLEAN] :
            /\ \A i \in 1..Len(mapped) :
                    \E r \in filterAcceptsRow(i - 1, l) :
                        r.ub = "none" /\ r.acc = m[i]
            /\ mapped' = m
            /\ ub' = "none"
       \/ /\ \E i \in 1..Len(mapped) :
                    \E r \in filterAcceptsRow(i - 1, l) : r.ub # "none"
          /\ mapped' = mapped
          /\ ub' = "crash"
    /\ pc' = [pc EXCEPT ![UI] = "level_ret"]
    /\ UNCHANGED <<data_, max_items_, lockW, lockR, msg, next_idx, popped,
                   emitted, nextId, sinceClear, everEvicted, uiIdx, atResult,
                   rcResult, attached, text, rows>>
    /\ UNCHANGED pauseVars
    /\ UNCHANGED changeVars

\* setLevel and OnLevelChanged return
OnLevelChanged_return ==
    /\ ub = "none" /\ pc[UI] = "level_ret"
    /\ pc' = [pc EXCEPT ![UI] = "idle"]
    /\ UNCHANGED <<data_, max_items_, lockW, lockR, msg, next_idx, popped,
                   emitted, nextId, sinceClear, everEvicted, uiIdx, atResult,
                   rcResult, ub>>
    /\ UNCHANGED viewVars
    /\ UNCHANGED pauseVars
    /\ UNCHANGED changeVars

\* The elements of a set of rows in ascending order (std::sort of line 245).
Sorted(selected) ==
    CHOOSE q \in [1..Cardinality(selected) -> selected] :
        \A i, j \in 1..Cardinality(selected) : i < j => q[i] < q[j]

\* lines 242-262: getSelectionText() with the rows sel selected.  The text
\* is kept as the sequence of its lines, a line being the number of the
\* message whose formatted text it is (-1: memory that holds no message).
\* Every line is read by at(srow); an at() outside the deque gives a line
\* of such memory or ends the process before the text is returned.
GetSelectionText(sel) ==
    /\ ub = "none" /\ pc[UI] = "idle"
    /\ rows' = Sorted(sel)
    /\ LET visit == IF sel = {} THEN [i \in 1..visibleCount |-> i - 1]
                    ELSE Sorted(sel)
           srow == [k \in 1..Len(visit) |-> mapVisibleToSource(visit[k])]
           reads == [k \in 1..Len(visit) |->
                        IndexUnchecked(data_, srow[k], lockW # {})]
       IN  \/ \E f \in [1..Len(visit) -> {"elem", "garbage"}] :
                /\ \A k \in 1..Len(visit) :
                        \E r \in reads[k] :
                            r.ub = "none" /\ (r.msg = Garbage) = (f[k] = "garbage")
                /\ text' = [k \in 1..Len(visit) |->
                              IF f[k] = "garbage" THEN Garbage.id
                              ELSE data_[srow[k] + 1].id]
                /\ ub' = "none"
           \/ /\ \E k \in 1..Len(visit) : \E r \in reads[k] : r.ub # "none"
              /\ text' = <<>>
              /\ ub' = "crash"
    /\ pc' = [pc EXCEPT ![UI] = "text_ret"]
    /\ UNCHANGED <<data_, max_items_, lockW, lockR, msg, next_idx, popped,
                   emitted, nextId, sinceClear, everEvicted, uiIdx, atResult,
                   rcResult, attached, level_, mapped, value>>
    /\ UNCHANGED pauseVars
    /\ UNCHANGED changeVars

\* copySelection / saveSelection have the text; getSelectionText's frame is
\* gone
GetSelectionText_return ==
    /\ ub = "none" /\ pc[UI] = "text_ret"
    /\ text' = <<>>
    /\ rows' = <<>>
    /\ pc' = [pc EXCEPT ![UI] = "idle"]
    /\ UNCHANGED <<data_, max_items_, lockW, lockR, msg, next_idx, popped,
                   emitted, nextId, sinceClear, everEvicted, uiIdx, atResult,
                   rcResult, ub, attached, level_, mapped, value>>
    /\ UNCHANGED pauseVars
    /\ UNCHANGED changeVars

\* OnPauseClicked with setUpdatesEnabled(paused_), the negation left out.
OnPauseClicked_enablesWhenPaused ==
    /\ ub = "none" /\ pc[UI] = "idle"
    /\ paused_' = ~paused_
    /\ updatesEnabled' = paused_'
    /\ oddClicks' = ~oddClicks
    /\ UNCHANGED <<data_, max_items_, lockW, lockR, pc, msg, next_idx, popped,
                   emitted, nextId, sinceClear, everEvicted, uiIdx, atResult,
                   rcResult, ub>>
    /\ UNCHANGED viewVars
    /\ UNCHANGED changeVars

\* QsLogWindow.cpp lines 164-172: OnPauseClicked(): paused_ = !paused_
\* (line 169), setUpdatesEnabled(!paused_) (line 171).  Lines 166-167 set
\* the icon and the text of the button.
OnPauseClicked ==
    /\ ub = "none" /\ pc[UI] = "idle"
    /\ paused_' = ~paused_
    /\ updatesEnabled' = ~paused_'
    /\ oddClicks' = ~oddClicks
    /\ UNCHANGED <<data_, max_items_, lockW, lockR, pc, msg, next_idx, popped,
                   emitted, nextId, sinceClear, everEvicted, uiIdx, atResult,
                   rcResult, ub>>
    /\ UNCHANGED viewVars
    /\ UNCHANGED changeVars

\* ------------------------------------------------------- specifications
\* The logging threads run the same code: the call goes to the idle one
\* with the lowest number.
TakesCall(p) == \A q \in Producers : q < p => pc[q] # "idle"

\* No call is running.
Quiescent == \A t \in Threads : pc[t] = "idle"

\* The steps inside a running addEntry.
AddEntry_steps(p) ==
    \/ AddEntry_beginInsert(p)
    \/ AddEntry_lockPush(p)
    \/ AddEntry_push(p)
    \/ AddEntry_endInsert(p)
    \/ AddEntry_capacityTest(p)
    \/ AddEntry_lockPop(p)
    \/ AddEntry_pop(p)
    \/ AddEntry_idx1Lock(p)
    \/ AddEntry_idx1(p)
    \/ AddEntry_argSize(p)
    \/ AddEntry_argRowCountLock(p)
    \/ AddEntry_argRowCount(p)
    \/ AddEntry_hasIndex(p)
    \/ AddEntry_idx2(p)
    \/ AddEntry_dataChanged(p)
    \/ AddEntry_return(p)

\* The steps inside a running clear().
Clear_steps ==
    \/ Clear_lock
    \/ Clear_clear
    \/ Clear_end
    \/ Clear_return

\* The steps inside a running rowCount() of the window's thread.
RowCount_steps ==
    \/ RowCount_read
    \/ RowCount_return

\* The steps inside a running call of the window's thread.
UI_steps ==
    \/ Clear_steps
    \/ At_read
    \/ At_return
    \/ RowCount_steps

\* Spec: the logging threads run concurrently with the window's thread,
\* which clears the buffer and asks for its length.
Init == Constructed(MaxCapacity) /\ NoWindow

Next ==
    \/ \E p \in Producers, lvl \in ConcLevels :
            nextId <= MaxAppends /\ TakesCall(p) /\ AddEntry_begin(p, lvl)
    \/ \E p \in Producers : AddEntry_steps(p)
    \/ Clear_begin
    \/ RowCount_lock
    \/ Clear_steps
    \/ RowCount_steps

Spec == Init /\ [][Next]_vars

\* SpecAppend: the logging threads alone, appending concurrently.
InitAppend == Constructed(AppendOnlyCapacity) /\ NoWindow

NextAppend ==
    \/ \E p \in Producers, lvl \in ConcLevels :
            nextId <= AppendOnlyMax /\ TakesCall(p) /\ AddEntry_begin(p, lvl)
    \/ \E p \in Producers : AddEntry_steps(p)

SpecAppend == InitAppend /\ [][NextAppend]_vars

\* SpecSeq: one call at a time, each run to its return before the next.
InitSeq == Constructed(SeqCapacity) /\ NoWindow

NextSeq ==
    \/ \E lvl \in SeqLevels :
            nextId <= SeqAppends /\ Quiescent /\ AddEntry_begin(1, lvl)
    \/ AddEntry_steps(1)
    \/ Quiescent /\ Clear_begin
    \/ \E i \in 0..SeqAtIndex : Quiescent /\ At_call(i)
    \/ Quiescent /\ RowCount_lock
    \/ UI_steps

SpecSeq == InitSeq /\ [][NextSeq]_vars

\* The steps inside a running call of the window.
Window_steps ==
    \/ Clear_lock
    \/ Clear_clear
    \/ Clear_end
    \/ Clear_return
    \/ OnLevelChanged_return
    \/ GetSelectionText_return

\* SpecView: a Window is connected to the destination and everything runs
\* in the window's thread, one call at a time: write(), the clear button,
\* the level combo box, the pause button, copy/save.
InitView == Constructed(ViewCapacity) /\ Window_ctor

NextView ==
    \/ \E lvl \in ViewLevels :
            nextId <= ViewAppends /\ Quiescent /\ AddEntry_begin(1, lvl)
    \/ AddEntry_steps(1)
    \/ Quiescent /\ Clear_begin
    \/ \E l \in ViewThresholds : Quiescent /\ OnLevelChanged(l)
    \/ Quiescent /\ OnPauseClicked
    \/ \E sel \in SUBSET (0..(visibleCount - 1)) :
            /\ Cardinality(sel) <= MaxSelected
            /\ Quiescent /\ GetSelectionText(sel)
    \/ Window_steps

SpecView == InitView /\ [][NextView]_vars

\* SpecLive: one logging thread and the window's thread run concurrently
\* under a fair scheduler.  A thread inside a call is given the processor
\* again and again, and a thread waiting for data_lock_ gets it if it is
\* free again and again (strong fairness of the steps inside a call).  No
\* thread is obliged to start a call.
InitLive == Constructed(MaxCapacity) /\ NoWindow

NextLive ==
    \/ \E lvl \in ConcLevels :
            nextId <= MaxAppends /\ AddEntry_begin(1, lvl)
    \/ AddEntry_steps(1)
    \/ Clear_begin
    \/ \E i \in 0..MaxAtIndex : At_call(i)
    \/ RowCount_lock
    \/ UI_steps

SpecLive ==
    /\ InitLive /\ [][NextLive]_vars
    /\ SF_vars(AddEntry_steps(1))
    /\ SF_vars(UI_steps)

\* ---------------------------------------------------------------- claims
\* The last n elements of a sequence.
LastN(q, n) == SubSeq(q, Len(q) - n + 1, Len(q))

Min(a, b) == IF a < b THEN a ELSE b

Bounded == max_items_ # SizeMax

\* C1: with a bounded capacity and producers appending in any interleaving,
\* whenever no append is in progress the buffer holds at most max_items_
\* records.
C1_LengthWithinCapacity ==
    (Quiescent /\ Bounded) => Len(data_) <= max_items_

\* C2: after each of n sequential appends to an empty buffer, the buffer is
\* the last min(n, capacity) appended records in append order.
C2_LastRecordsKept ==
    pc[1] \in {"ret", "idle"} =>
        data_ = LastN(sinceClear,
                      IF Bounded THEN Min(Len(sinceClear), max_items_)
                      ELSE Len(sinceClear))

\* C2's case: capacity 3 and appends [Info, Warn, Error, Debug] leave
\* [Warn, Error, Debug].
C2_Witness ==
    /\ pc[1] = "ret" /\ max_items_ = 3
    /\ Len(sinceClear) = 4
    /\ [i \in 1..4 |-> sinceClear[i].level]
            = <<InfoLevel, WarnLevel, ErrorLevel, DebugLevel>>
    /\ Len(data_) = 3
    /\ [i \in 1..3 |-> data_[i].level] = <<WarnLevel, ErrorLevel, DebugLevel>>

\* C3: no at(index) and no rowCount() reads data_ while an append or a clear
\* is inside its critical section.
C3_ReadersExcludeWriters ==
    [][((pc[UI] = "at_read" /\ pc'[UI] = "at_ret")
        \/ (pc[UI] = "rc_read" /\ pc'[UI] = "rc_ret")) => lockW = {}]_vars

\* What at() would hand back if it reported an index out of range.
IndexOutOfRange == [id |-> -2, level |-> OffLevel]

\* C4: at(index) with index at or past the length reports an out-of-range
\* error that the caller can recover from.
C4_OutOfRangeSignalled ==
    (pc[UI] = "at_ret" /\ uiIdx >= Len(data_)) =>
        (atResult = IndexOutOfRange /\ ub = "none")

\* C5: after N appends of any number of producers, none of which evicted,
\* the buffer holds exactly the N appended records, each once.
C5_NoLossNoDuplicate ==
    (Quiescent /\ ~everEvicted) =>
        /\ Len(data_) = nextId - 1
        /\ {data_[i].id : i \in 1..Len(data_)} = 1..(nextId - 1)

\* C5's case: every append of the run is done, without an eviction.
C5_Witness ==
    /\ Quiescent /\ ~everEvicted
    /\ nextId > AppendOnlyMax
    /\ Len(data_) = AppendOnlyMax

\* q is what is left of h after removing some of its oldest elements.
IsSuffix(q, h) ==
    Len(q) <= Len(h) /\ q = SubSeq(h, Len(h) - Len(q) + 1, Len(h))

\* C6: in every reachable state the buffer holds its records in the order
\* their pushes were serialized, evictions having removed only the oldest.
C6_OrderPreserved == IsSuffix(data_, sinceClear)

\* The buffer holds only records appended after the last clear and, with no
\* append in progress, no more than its capacity.
FreshFifo ==
    /\ \A i \in 1..Len(data_) :
            \E j \in 1..Len(sinceClear) : sinceClear[j] = data_[i]
    /\ (Quiescent /\ Bounded) => Len(data_) <= max_items_

\* C7: clear() leaves length 0 and the capacity as it was, and from then on
\* the buffer holds only records appended after the clear, within the same
\* capacity.
C7_ClearStartsFreshFifo ==
    [][/\ (pc[UI] = "clear" /\ pc'[UI] = "reset") =>
            (Len(data_') = 0 /\ max_items_' = max_items_)
       /\ FreshFifo']_vars

\* C8: in every state of the buffer the push of an append puts the given
\* record at the end of the sequence and reports no error.
C8_AppendSucceeds ==
    [][\A p \in Producers :
        (pc[p] = "push" /\ pc'[p] # "push") =>
            /\ isValid
            /\ data_' = Append(data_, msg[p])
            /\ ub' = "none"]_vars

\* C8's case: an append has pushed onto a buffer that was at capacity, and
\* its record is the newest.
C8_Witness ==
    \E p \in Producers :
        /\ pc[p] = "inserted" /\ Bounded
        /\ Len(data_) > max_items_
        /\ data_[Len(data_)] = msg[p]

\* The kinds of the signals a thread's call has emitted, in order.
Kinds(t) == [i \in 1..Len(emitted[t]) |-> emitted[t][i].kind]

\* C9: an append emits the row-added signal once and, after it, the
\* range-changed signal exactly when it evicted; a clear emits reset.
C9_SignalsPerCall ==
    /\ \A p \in Producers :
            pc[p] = "ret" =>
                Kinds(p) = IF popped[p]
                           THEN <<"rowsAboutToBeInserted", "rowsInserted",
                                  "dataChanged">>
                           ELSE <<"rowsAboutToBeInserted", "rowsInserted">>
    /\ pc[UI] = "clear_ret" =>
            Kinds(UI) = <<"modelAboutToBeReset", "modelReset">>

\* C9's case: an append that evicted, an append that did not and a clear
\* have all just finished.
C9_Witness ==
    /\ pc[UI] = "clear_ret"
    /\ \E p, q \in Producers :
            pc[p] = "ret" /\ popped[p] /\ pc[q] = "ret" /\ ~popped[q]

\* C10: no signal is emitted by a thread that holds data_lock_.
C10_NoSignalUnderLock ==
    \A t \in Threads :
        \A i \in 1..Len(emitted[t]) : ~emitted[t][i].locked

\* C10's case: an append has emitted all three of its signals and a clear
\* both of its own.
C10_Witness ==
    /\ Len(emitted[UI]) = 2
    /\ \E p \in Producers : Len(emitted[p]) = 3

\* C17: the range-changed signal of an eviction has row 0 as its first
\* corner and, as its last corner, a valid index of the last remaining row
\* (length - 1) within the columns of the model.
C17_ChangedCoversAllRows ==
    (pc[1] = "ret" /\ popped[1] /\ Len(emitted[1]) = 3) =>
        /\ emitted[1][3].first.row = 0
        /\ emitted[1][3].last.row = Len(data_) - 1
        /\ emitted[1][3].last.column \in 0..(ColumnCount - 1)

\* C19: the pop of an append runs only on a buffer that holds at least one
\* record, whatever clear() did between the push and the pop.
C19_PopOnlyWhenNonEmpty ==
    \A p \in Producers : pc[p] = "pop" => Len(data_) >= 1

\* C20: the row an append announces is the index at which its push puts the
\* record, whatever other appends and clear() did since the row was read.
C20_AnnouncedRowIsInsertedRow ==
    \A p \in Producers : pc[p] = "push" => next_idx[p] = Len(data_)

\* Every thread is inside a call and waits for data_lock_, which none of
\* them can take.
AllWaitOnLock ==
    /\ pc[1] \in {"lock_push", "lock_pop"}
    /\ pc[UI] = "lock_clear"
    /\ ~CanLockForWrite

\* C11: with one logging thread and the window's thread under a fair
\* scheduler, every started append, clear, at and rowCount call returns, and
\* the threads are never all waiting for the lock.
C11_NoIndefiniteBlocking ==
    /\ \A t \in {1, UI} : (pc[t] # "idle") ~> (pc[t] = "idle")
    /\ [](~AllWaitOnLock)

\* The indices of the buffer whose record has a level at or above t.
Qualifying(t) == {i \in 0..(Len(data_) - 1) : data_[i + 1].level >= t}

\* The same indices in ascending order.
QualifyingRows(t) == Sorted(Qualifying(t))

\* C12: for every threshold and every content of the buffer, visibleCount
\* is the number of records of the buffer with a level at or above the
\* threshold.
C12_VisibleCountIsQualifyingCount ==
    Quiescent => visibleCount = Cardinality(Qualifying(level_))

\* C13: mapVisibleToSource is strictly increasing and its image over
\* 0 .. visibleCount - 1 is the set of the buffer indices whose record has a
\* level at or above the threshold.
C13_MappingIsIncreasingOntoQualifying ==
    Quiescent =>
        /\ \A i, j \in 0..(visibleCount - 1) :
                i < j => mapVisibleToSource(i) < mapVisibleToSource(j)
        /\ {mapVisibleToSource(i) : i \in 0..(visibleCount - 1)}
                = Qualifying(level_)

\* C14: after any sequence of appends, evictions, clears and threshold
\* changes the rows the view shows are the records of the current buffer
\* with a level at or above the current threshold, from a mapping of the
\* current buffer and no earlier one.
C14_ViewFollowsBuffer ==
    Quiescent =>
        /\ Len(mapped) = Len(data_)
        /\ SourceRows = QualifyingRows(level_)

\* C15: when setLevel(level) has returned, level() is the new level and the
\* filter answers by the new threshold, also when the level did not change.
C15_SetLevelTakesEffect ==
    (pc[UI] = "level_ret" /\ ub = "none") =>
        /\ level_ = value
        /\ \A i \in 0..(Len(mapped) - 1) :
                Shown(i) <=> i \in Qualifying(value)

\* C16: mapVisibleToSource(visibleIndex) reports out of range for every
\* visibleIndex at or past the number of qualifying records, and gives no
\* index that the buffer does not have.
C16_MappingOutOfRange ==
    Quiescent =>
        \A i \in 0..ViewAppends :
            /\ i >= Cardinality(Qualifying(level_))
                    => mapVisibleToSource(i) = InvalidIndex.row
            /\ mapVisibleToSource(i) # InvalidIndex.row
                    => mapVisibleToSource(i) \in 0..(Len(data_) - 1)

\* The lines of the formatted texts of the records at the given positions
\* of the visible sequence of the buffer (garbage where there is none).
TextOf(positions) ==
    [k \in 1..Len(positions) |->
        IF positions[k] < Len(QualifyingRows(level_))
        THEN data_[QualifyingRows(level_)[positions[k] + 1] + 1].id
        ELSE Garbage.id]

\* C18: getSelectionText gives, with no selection, the formatted texts of
\* all visible records in display order, each with its newline; with a
\* selection those of the selected rows in ascending order; and it leaves the
\* buffer as it was.
C18_ExportIsVisibleText ==
    [][(pc[UI] = "idle" /\ pc'[UI] = "text_ret") =>
            /\ ub' = "none"
            /\ data_' = data_
            /\ text' = IF rows' = <<>>
                       THEN TextOf([k \in 1..Cardinality(Qualifying(level_))
                                        |-> k - 1])
                       ELSE TextOf(rows')]_vars

\* The appends that have started and not yet returned.
InProgress == {p \in Producers : pc[p] # "idle"}

\* C21: with a bounded capacity, what rowCount() reads while producers
\* append is never more than the capacity plus the number of appends in
\* progress.
C21_LengthSeenWithinCapacityPlusInProgress ==
    [][(pc[UI] = "rc_read" /\ pc'[UI] = "rc_ret" /\ Bounded) =>
            rcResult' <= max_items_ + Cardinality(InProgress)]_vars

\* Where a thread stands between the capacity test of line 67 found true
\* and the emit of line 75.
EvictionSteps ==
    {"lock_pop", "pop", "changed", "idx1", "args", "args_row",
     "args_rowCount", "args_row_rowCount", "args_column", "has", "idx2",
     "emit"}

\* C22: with no limit on the capacity an append never evicts and never
\* emits dataChanged, and the length is the number of records appended since
\* the construction or the last clear.
C22_UnboundedNeverEvicts ==
    max_items_ = SizeMax =>
        /\ \A p \in Producers :
                /\ pc[p] \notin EvictionSteps
                /\ ~popped[p]
                /\ \A i \in 1..Len(emitted[p]) :
                        emitted[p][i].kind # "dataChanged"
        /\ ~everEvicted
        /\ Len(data_) = Len(sinceClear)

\* C22's case: with no limit, every append of the run has pushed, one has
\* emitted its signals, and the buffer holds them all.
C22_Witness ==
    /\ max_items_ = SizeMax
    /\ nextId > MaxAppends
    /\ \E p \in Producers : pc[p] = "ret" /\ Len(emitted[p]) = 2
    /\ Len(data_) = MaxAppends

\* A step of a filter operation: setLevel (with invalidateFilter and its
\* filterAcceptsRow calls), the row count and index mapping queries of
\* getSelectionText, and their returns.
FilterStep ==
    \/ pc[UI] = "idle" /\ pc'[UI] \in {"level_ret", "text_ret"}
    \/ pc[UI] \in {"level_ret", "text_ret"} /\ pc'[UI] = "idle"

\* A step of an append or of a clear.
BufferStep ==
    \/ pc'[1] # pc[1]
    \/ pc[UI] = "idle" /\ pc'[UI] = "lock_clear"
    \/ pc[UI] \in {"lock_clear", "clear", "reset", "clear_ret"}

\* C23: the filter operations leave the records, the length and the
\* capacity of the buffer as they were, and append and clear leave the
\* threshold as it was.
C23_FilterReadsBufferWritesNoThreshold ==
    [][/\ FilterStep => (data_' = data_ /\ max_items_' = max_items_)
       /\ BufferStep => level_' = level_]_vars

\* C23's case: after setLevel(WarnLevel) and appends with an eviction,
\* getSelectionText has run over a buffer that holds records and the
\* threshold is still WarnLevel.
C23_Witness ==
    /\ pc[UI] = "text_ret" /\ text # <<>>
    /\ level_ = WarnLevel /\ everEvicted
    /\ Len(data_) >= 1

\* The buffer is what sequential appends and clears make of it: the last
\* min(n, capacity) of the n records appended since the last clear.
SequentialBuffer ==
    pc[1] \in {"ret", "idle"} =>
        data_ = LastN(sinceClear,
                      IF Bounded THEN Min(Len(sinceClear), max_items_)
                      ELSE Len(sinceClear))

\* C24: after any number of pause clicks the view updates exactly when
\* paused_ is false, and paused_ is true exactly after an odd number of
\* clicks; a click touches neither the buffer nor the filter, and appends,
\* evictions and clear leave paused_ alone and make the same buffer paused
\* or not.
C24_PauseOnlyStopsUpdates ==
    /\ [](/\ updatesEnabled = ~paused_
          /\ paused_ = oddClicks
          /\ SequentialBuffer)
    /\ [][/\ oddClicks' # oddClicks =>
                UNCHANGED <<data_, max_items_, sinceClear, level_, mapped>>
          /\ BufferStep => paused_' = paused_]_vars

\* C24's case: the window is paused and an append has run from its start
\* to its eviction while it was.
C24_Witness ==
    /\ paused_ /\ ~updatesEnabled
    /\ pc[1] = "ret" /\ popped[1]
    /\ max_items_ > 0 /\ Len(data_) = max_items_

====
